---- MODULE Spec2Model ----
(***************************************************************************)
(* Model of the netlink connector payload codec of src/protocol.rs:        *)
(* ConnectorMessage::new, NetlinkSerializable::{buffer_len, serialize}     *)
(* and NetlinkDeserializable::deserialize.                                 *)
(*                                                                         *)
(* Representation.  A byte is an integer in 0..255.  A u16 is an integer   *)
(* in 0..65535.  A u32 does not fit the integers of the model checker, so  *)
(* a u32 is the pair <<hi, lo>> of its 16-bit halves, the number           *)
(* hi * 65536 + lo; two u32 are equal iff their pairs are equal.  usize    *)
(* values (lengths) stay far below 2^31 and are plain integers.            *)
(*                                                                         *)
(* A byte string (a slice or a Vec<u8>) may hold more than 65535 bytes, so *)
(* it is kept with its trailing run compressed: the record                 *)
(* [head, run, of] is the string  head ++ of^run,  the bytes of head       *)
(* followed by run copies of the byte `of`.  The form is canonical (the    *)
(* run is the longest trailing run; the empty string is [<<>>, 0, 0]), so  *)
(* two byte strings are equal iff their records are equal.  Rust offset k  *)
(* is index k + 1.                                                         *)
(***************************************************************************)
EXTENDS Integers, Sequences, FiniteSets

VARIABLES
    endian,   \* byte order of the build target (NativeEndian)
    msg,      \* the ConnectorMessage in hand: <<>> or <<m>>
    buffer,   \* the byte buffer in hand (payload slice / caller's buffer)
    prior,    \* content of the caller's buffer when serialize was entered
    sent,     \* the message last given to serialize: <<>> or <<m>>
    rx,       \* the payload last given to deserialize: <<>> or <<bytes>>
    result,   \* outcome of the last codec call
    pc        \* position of the caller

vars == <<endian, msg, buffer, prior, sent, rx, result, pc>>

\* ---------------------------------------------------------------- bounds
MaxDataLen == 2      \* data lengths j and j + k * 65536 with j in 0..MaxDataLen
MaxWrap == 1         \* k in 0..MaxWrap
MaxSlack == 1        \* caller buffers up to MaxSlack bytes off buffer_len()

\* ------------------------------------------------------ program constants
HeaderLen == 20      \* offset of the data bytes
U16Mod == 65536      \* `as u16` keeps a usize modulo 2^16
ByteMod == 256

\* ----------------------------------------------------------- byte strings
Empty == [head |-> <<>>, run |-> 0, of |-> 0]

\* the canonical record of the string  h ++ c^n
RECURSIVE Norm(_, _, _)
Norm(h, n, c) ==
    IF n = 0
    THEN IF h = <<>> THEN Empty
         ELSE Norm(SubSeq(h, 1, Len(h) - 1), 1, h[Len(h)])
    ELSE IF h # <<>> /\ h[Len(h)] = c
         THEN Norm(SubSeq(h, 1, Len(h) - 1), n + 1, c)
         ELSE [head |-> h, run |-> n, of |-> c]

FromSeq(s) == Norm(s, 0, 0)

BLen(b) == Len(b.head) + b.run

\* the byte at index i, 1 <= i <= BLen(b)
At(b, i) == IF i <= Len(b.head) THEN b.head[i] ELSE b.of

\* the first k bytes, k <= BLen(b)
Take(b, k) ==
    IF k <= Len(b.head) THEN FromSeq(SubSeq(b.head, 1, k))
    ELSE [head |-> b.head, run |-> k - Len(b.head), of |-> b.of]

\* all but the first k bytes, k <= BLen(b)
Drop(b, k) ==
    IF k < Len(b.head)
    THEN [head |-> SubSeq(b.head, k + 1, Len(b.head)), run |-> b.run, of |-> b.of]
    ELSE IF k = BLen(b) THEN Empty
    ELSE [head |-> <<>>, run |-> BLen(b) - k, of |-> b.of]

\* the bytes of a short string, written out
Expand(b) == b.head \o [i \in 1..b.run |-> b.of]

\* a ++ b, for a short string a
Cat(a, b) ==
    IF BLen(b) = 0 THEN a ELSE Norm(Expand(a) \o b.head, b.run, b.of)

\* ------------------------------------------------------------- data types
None == <<>>
Some(x) == <<x>>

U32(hi, lo) == <<hi, lo>>

ConnectorId(idx, value) == [idx |-> idx, value |-> value]

new(idx, value, seq, ack, flags, data) ==
    [id |-> ConnectorId(idx, value), seq |-> seq, ack |-> ack,
     flags |-> flags, data |-> data]

DeserializeError(text) == [kind |-> "err", text |-> text]
Ok(m) == [kind |-> "ok", msg |-> m]
Panic == [kind |-> "panic"]
Unit == [kind |-> "ok"]
NoResult == [kind |-> "none"]

\* ------------------------------------------------- byteorder::NativeEndian
\* variant: reads little-endian whatever the target
read_u16_le(b) == At(b, 1) + ByteMod * At(b, 2)

read_u16(b) ==
    IF endian = "little" THEN At(b, 1) + ByteMod * At(b, 2)
                         ELSE At(b, 2) + ByteMod * At(b, 1)

\* variant: the two 16-bit halves exchanged
read_u32_swapped(b) ==
    IF endian = "little"
    THEN U32(At(b, 1) + ByteMod * At(b, 2), At(b, 3) + ByteMod * At(b, 4))
    ELSE U32(At(b, 4) + ByteMod * At(b, 3), At(b, 2) + ByteMod * At(b, 1))

read_u32(b) ==
    IF endian = "little"
    THEN U32(At(b, 3) + ByteMod * At(b, 4), At(b, 1) + ByteMod * At(b, 2))
    ELSE U32(At(b, 2) + ByteMod * At(b, 1), At(b, 4) + ByteMod * At(b, 3))

\* the bytes write_u16 stores for n
u16_bytes(n) ==
    IF endian = "little" THEN <<n % ByteMod, n \div ByteMod>>
                         ELSE <<n \div ByteMod, n % ByteMod>>

\* the bytes write_u32 stores for n
u32_bytes(n) ==
    IF endian = "little"
    THEN <<n[2] % ByteMod, n[2] \div ByteMod, n[1] % ByteMod, n[1] \div ByteMod>>
    ELSE <<n[1] \div ByteMod, n[1] % ByteMod, n[2] \div ByteMod, n[2] % ByteMod>>

\* variant: an off-by-one range check that refuses a slice ending at len
SliceOk_strict(s, start, end) == start <= end /\ end < BLen(s)

\* slice[start..end] exists iff start <= end <= len; otherwise the index panics
SliceOk(s, start, end) == start <= end /\ end <= BLen(s)

\* slice[start..end]
Slice(s, start, end) == Take(Drop(s, start), end - start)

\* the buffer after a write of the bytes `bytes` into buffer[off..off+len]
Splice(buf, off, bytes) ==
    Cat(Cat(Take(buf, off), bytes), Drop(buf, off + BLen(bytes)))

as_u16(n) == n % U16Mod

\* ------------------------------------------------------------ deserialize
\* variant: a length check in front that reports short input as an error
deserialize_checked(payload) ==
    IF BLen(payload) < HeaderLen THEN DeserializeError("Invalid data length")
    ELSE
      LET idx   == read_u32(Slice(payload, 0, 4))
          value == read_u32(Slice(payload, 4, 8))
          seq   == read_u32(Slice(payload, 8, 12))
          ack   == read_u32(Slice(payload, 12, 16))
          len   == read_u16(Slice(payload, 16, 18))
          flags == read_u16(Slice(payload, 18, 20))
          data  == Slice(payload, HeaderLen, BLen(payload))
      IN  IF as_u16(BLen(data)) # len
          THEN DeserializeError("Invalid data length")
          ELSE Ok(new(idx, value, seq, ack, flags, data))

deserialize(payload) ==
    IF ~SliceOk(payload, 0, 4) THEN Panic
    ELSE IF ~SliceOk(payload, 4, 8) THEN Panic
    ELSE IF ~SliceOk(payload, 8, 12) THEN Panic
    ELSE IF ~SliceOk(payload, 12, 16) THEN Panic
    ELSE IF ~SliceOk(payload, 16, 18) THEN Panic
    ELSE IF ~SliceOk(payload, 18, 20) THEN Panic
    ELSE IF ~SliceOk(payload, HeaderLen, BLen(payload)) THEN Panic
    ELSE
      LET idx   == read_u32(Slice(payload, 0, 4))
          value == read_u32(Slice(payload, 4, 8))
          seq   == read_u32(Slice(payload, 8, 12))
          ack   == read_u32(Slice(payload, 12, 16))
          len   == read_u16(Slice(payload, 16, 18))
          flags == read_u16(Slice(payload, 18, 20))
          data  == Slice(payload, HeaderLen, BLen(payload))
      IN  IF as_u16(BLen(data)) # len
          THEN DeserializeError("Invalid data length")
          ELSE Ok(new(idx, value, seq, ack, flags, data))

\* -------------------------------------------------------------- serialize
\* variant: one byte short
buffer_len_short(m) == HeaderLen - 1 + BLen(m.data)

buffer_len(m) == HeaderLen + BLen(m.data)

\* variant: ack written where seq belongs and seq where ack belongs
HeaderWrites_swapped(m) ==
    << <<0,  u32_bytes(m.id.idx)>>,
       <<4,  u32_bytes(m.id.value)>>,
       <<8,  u32_bytes(m.ack)>>,
       <<12, u32_bytes(m.seq)>>,
       <<16, u16_bytes(as_u16(BLen(m.data)))>>,
       <<18, u16_bytes(m.flags)>> >>

\* variant: the len field is never written
HeaderWrites_nolen(m) ==
    << <<0,  u32_bytes(m.id.idx)>>,
       <<4,  u32_bytes(m.id.value)>>,
       <<8,  u32_bytes(m.seq)>>,
       <<12, u32_bytes(m.ack)>>,
       <<18, u16_bytes(m.flags)>> >>

\* the header writes of serialize, in program order: <<offset, bytes>>
HeaderWrites(m) ==
    << <<0,  u32_bytes(m.id.idx)>>,
       <<4,  u32_bytes(m.id.value)>>,
       <<8,  u32_bytes(m.seq)>>,
       <<12, u32_bytes(m.ack)>>,
       <<16, u16_bytes(as_u16(BLen(m.data)))>>,
       <<18, u16_bytes(m.flags)>> >>

\* performs the writes ws[k], ws[k+1], ... in order; a write whose slice is
\* out of range panics and leaves the earlier writes in the buffer
RECURSIVE WriteFrom(_, _, _)
WriteFrom(buf, ws, k) ==
    IF k > Len(ws) THEN [panic |-> FALSE, buf |-> buf]
    ELSE IF ~SliceOk(buf, ws[k][1], ws[k][1] + Len(ws[k][2]))
         THEN [panic |-> TRUE, buf |-> buf]
         ELSE WriteFrom(Splice(buf, ws[k][1], FromSeq(ws[k][2])), ws, k + 1)

\* buffer[20..].copy_from_slice(&data): panics unless the lengths agree
CopyData(buf, data) ==
    IF ~SliceOk(buf, HeaderLen, BLen(buf)) THEN [panic |-> TRUE, buf |-> buf]
    ELSE IF BLen(buf) - HeaderLen # BLen(data) THEN [panic |-> TRUE, buf |-> buf]
    ELSE [panic |-> FALSE, buf |-> Cat(Take(buf, HeaderLen), data)]

serialize(m, buf) ==
    LET h == WriteFrom(buf, HeaderWrites(m), 1)
    IN  IF h.panic THEN h ELSE CopyData(h.buf, m.data)

\* ----------------------------------------------------------------- inputs
\* the j bytes 0xAA, 0xBB, 0xCC, ... followed by k * 65536 bytes 0x5A
DataOf(j, k) ==
    Norm([i \in 1..j |-> (170 + 17 * (i - 1)) % ByteMod], k * U16Mod, 90)

DataSet == { DataOf(j, k) : j \in 0..MaxDataLen, k \in 0..MaxWrap }

\* <<idx, value, seq, ack, flags>>
Headers ==
    { <<U32(0, 1), U32(0, 2), U32(0, 3), U32(0, 4), 5>>,
      <<U32(0, 0), U32(0, 0), U32(0, 0), U32(0, 0), 0>>,
      <<U32(65535, 65535), U32(65535, 65535), U32(65535, 65535),
        U32(65535, 65535), 65535>>,
      <<U32(258, 772), U32(1286, 1800), U32(2314, 2828), U32(3342, 3856), 4370>> }

Fills == {0, 255}

\* buffer sizes a caller may pass besides buffer_len(): too short for one of
\* the header fields, or off by a few bytes
ShortLens == {0, 2, 6, 10, 14, 17, 19}

AllocLens(m) ==
    ShortLens \cup { buffer_len(m) - d : d \in 1..MaxSlack }
              \cup { buffer_len(m) + d : d \in 1..MaxSlack }

\* raw payloads: 16 bytes of idx/value/seq/ack, 2 bytes of len, 2 of flags
RawWords ==
    { [i \in 1..16 |-> 0],
      [i \in 1..16 |-> 255],
      [i \in 1..16 |-> i] }

RawLens == { <<0, 0>>, <<1, 0>>, <<0, 1>>, <<2, 0>>, <<0, 2>>, <<255, 255>> }

RawFlags == { <<0, 0>>, <<5, 0>>, <<17, 18>>, <<255, 255>> }

FullPayloads ==
    { Cat(FromSeq(w \o l \o f), d) :
        w \in RawWords, l \in RawLens, f \in RawFlags, d \in DataSet }

ShortPayloads == { FromSeq([i \in 1..n |-> i]) : n \in 0..(HeaderLen - 1) }

\* ---------------------------------------------------------------- actions
Init ==
    /\ endian \in {"little", "big"}
    /\ msg = None
    /\ buffer = Empty
    /\ prior = Empty
    /\ sent = None
    /\ rx = None
    /\ result = NoResult
    /\ pc = "idle"

\* the application builds a message with ConnectorMessage::new
New ==
    /\ pc = "idle"
    /\ \E h \in Headers, d \in DataSet :
          msg' = Some(new(h[1], h[2], h[3], h[4], h[5], d))
    /\ pc' = "constructed"
    /\ UNCHANGED <<endian, buffer, prior, sent, rx, result>>

\* the framing layer hands over the payload bytes of a netlink message
Receive ==
    /\ pc = "idle"
    /\ \E p \in FullPayloads \cup ShortPayloads : buffer' = p
    /\ pc' = "received"
    /\ UNCHANGED <<endian, msg, prior, sent, rx, result>>

\* the caller allocates the output buffer for a message it built or received:
\* buffer_len() bytes, or another number of bytes, with arbitrary prior content
Alloc ==
    /\ pc \in {"constructed", "deserialized"}
    /\ msg # None
    /\ \E n \in {buffer_len(msg[1])} \cup AllocLens(msg[1]), fill \in Fills :
          n >= 0 /\ buffer' = Norm(<<>>, n, fill)
    /\ prior' = buffer'
    /\ pc' = "allocated"
    /\ UNCHANGED <<endian, msg, sent, rx, result>>

Serialize ==
    /\ pc = "allocated"
    /\ LET r == serialize(msg[1], buffer)
       IN  /\ buffer' = r.buf
           /\ result' = IF r.panic THEN Panic ELSE Unit
    /\ sent' = msg
    /\ pc' = "serialized"
    /\ UNCHANGED <<endian, msg, prior, rx>>

Deserialize ==
    /\ \/ pc = "received"
       \/ pc = "serialized" /\ result.kind = "ok"
    /\ LET r == deserialize(buffer)
       IN  /\ result' = r
           /\ msg' = IF r.kind = "ok" THEN Some(r.msg) ELSE None
    /\ rx' = Some(buffer)
    /\ pc' = "deserialized"
    /\ UNCHANGED <<endian, buffer, prior, sent>>

Next == New \/ Receive \/ Alloc \/ Serialize \/ Deserialize

Spec == Init /\ [][Next]_vars

\* ------------------------------------------------------------- properties
\* the bytes of a native-order field of `width` bytes at offset off, by
\* significance: k = 0 is the least significant byte
ByteAt(b, off, width, k) ==
    IF endian = "little" THEN At(b, off + k + 1) ELSE At(b, off + width - k)

U16At(b, off) == ByteAt(b, off, 2, 0) + 256 * ByteAt(b, off, 2, 1)

U32At(b, off) ==
    <<ByteAt(b, off, 4, 2) + 256 * ByteAt(b, off, 4, 3),
      ByteAt(b, off, 4, 0) + 256 * ByteAt(b, off, 4, 1)>>

Trailing(b) == Drop(b, 20)

\* serialize was entered with a buffer of exactly 20 + data.len() bytes
ExactBuffer == sent # None /\ BLen(prior) = 20 + BLen(sent[1].data)

Serialized == pc = "serialized" /\ result.kind = "ok"

Deserialized == pc = "deserialized" /\ rx # None

\* C1: round trip.  Deserializing the buffer that serialize filled for a
\* message m (buffer of buffer_len() bytes) succeeds and returns a message
\* equal to m in idx, value, seq, ack, flags and every data byte.
C1_RoundTrip ==
    (Deserialized /\ ExactBuffer) =>
        /\ result.kind = "ok"
        /\ msg # None
        /\ msg[1].id.idx = sent[1].id.idx
        /\ msg[1].id.value = sent[1].id.value
        /\ msg[1].seq = sent[1].seq
        /\ msg[1].ack = sent[1].ack
        /\ msg[1].flags = sent[1].flags
        /\ msg[1].data = sent[1].data

\* a message with more than 65535 data bytes and all-ones fields came back
C1_Witness ==
    /\ Deserialized /\ ExactBuffer /\ result.kind = "ok"
    /\ BLen(sent[1].data) > 65535
    /\ sent[1].flags = 65535

\* C2: a buffer of at least 20 bytes whose len field differs from the number
\* of bytes after offset 20 is rejected with "Invalid data length".
C2_RejectsLengthMismatch ==
    (Deserialized /\ BLen(rx[1]) >= 20 /\ U16At(rx[1], 16) # BLen(rx[1]) - 20) =>
        /\ result.kind = "err"
        /\ result.text = "Invalid data length"

\* C3: the len field serialize writes at 16..18 equals the number of data
\* bytes of the message.
C3_LenFieldIsDataLen ==
    (Serialized /\ ExactBuffer) => U16At(buffer, 16) = BLen(sent[1].data)

\* C4: buffer_len() is 20 + data.len() and the encoding is that many bytes:
\* 20 header bytes followed by the data bytes (20 bytes for empty data).
C4_EncodedSize ==
    /\ msg # None => buffer_len(msg[1]) = 20 + BLen(msg[1].data)
    /\ (Serialized /\ ExactBuffer) =>
          /\ BLen(buffer) = buffer_len(sent[1])
          /\ BLen(buffer) = 20 + BLen(sent[1].data)
          /\ Trailing(buffer) = sent[1].data
          /\ (sent[1].data = Empty => BLen(buffer) = 20)

\* encodings of 20 bytes and of more than 20 + 65535 bytes both occur
C4_Witness ==
    /\ Serialized /\ ExactBuffer
    /\ \/ sent[1].data = Empty /\ BLen(buffer) = 20 /\ sent[1].seq = U32(0, 3)
       \/ BLen(buffer) > 20 + 65535

\* C5: a buffer of at least 20 bytes whose len field equals the number of
\* bytes after offset 20 decodes successfully, whatever the other fields
\* hold, into idx = u32 at 0, value = u32 at 4, seq = u32 at 8, ack = u32 at
\* 12, flags = u16 at 18 and data = the bytes from offset 20 on.
C5_DecodeFields ==
    (Deserialized /\ BLen(rx[1]) >= 20 /\ U16At(rx[1], 16) = BLen(rx[1]) - 20) =>
        /\ result.kind = "ok"
        /\ result.msg.id.idx = U32At(rx[1], 0)
        /\ result.msg.id.value = U32At(rx[1], 4)
        /\ result.msg.seq = U32At(rx[1], 8)
        /\ result.msg.ack = U32At(rx[1], 12)
        /\ result.msg.flags = U16At(rx[1], 18)
        /\ result.msg.data = Trailing(rx[1])
        /\ msg = Some(result.msg)

\* a payload off the wire with distinct header bytes and two data bytes
C5_Witness ==
    /\ Deserialized /\ sent = None /\ result.kind = "ok"
    /\ BLen(rx[1]) = 22
    /\ U16At(rx[1], 16) = 2
    /\ At(rx[1], 1) = 1 /\ At(rx[1], 16) = 16
    /\ result.msg.id.idx # result.msg.id.value

\* C6: serialize writes idx at 0..4, value at 4..8, seq at 8..12, ack at
\* 12..16, the data length at 16..18, flags at 18..20 and the data bytes in
\* order from offset 20.
C6_EncodeLayout ==
    (Serialized /\ ExactBuffer) =>
        /\ U32At(buffer, 0) = sent[1].id.idx
        /\ U32At(buffer, 4) = sent[1].id.value
        /\ U32At(buffer, 8) = sent[1].seq
        /\ U32At(buffer, 12) = sent[1].ack
        /\ U16At(buffer, 16) = BLen(sent[1].data)
        /\ U16At(buffer, 18) = sent[1].flags
        /\ Trailing(buffer) = sent[1].data

\* C7: serialize into a buffer of exactly buffer_len() bytes never faults,
\* whatever the message.
C7_EncodeInfallible ==
    (pc = "serialized" /\ ExactBuffer) => result.kind = "ok"

\* serialize completed for a message of more than 65535 data bytes, and for
\* one with empty data
C7_Witness ==
    /\ pc = "serialized" /\ ExactBuffer /\ result.kind = "ok"
    /\ \/ BLen(sent[1].data) > 65535 /\ rx = None
       \/ sent[1].data = Empty /\ sent[1].flags = 65535

\* C8: deserialize of fewer than 20 bytes ends in an out-of-bounds fault,
\* returning neither a message nor an error value; the only error value
\* deserialize returns is "Invalid data length".
C8_ShortInputFaults ==
    /\ (Deserialized /\ BLen(rx[1]) < 20) => (result.kind = "panic" /\ msg = None)
    /\ (Deserialized /\ result.kind = "err") => result.text = "Invalid data length"

\* the empty payload, and a payload of 19 bytes, were given to deserialize
C8_Witness ==
    /\ Deserialized /\ result.kind = "panic"
    /\ BLen(rx[1]) \in {0, 19}

\* C9: reverse round trip.  When deserialize accepts a buffer b, serializing
\* the returned message into a buffer of buffer_len() bytes reproduces b.
C9_ReverseRoundTrip ==
    (pc = "serialized" /\ rx # None /\ ExactBuffer) =>
        /\ result.kind = "ok"
        /\ buffer = rx[1]

\* an accepted payload of more than 20 + 65535 bytes was serialized again
C9_Witness ==
    /\ pc = "serialized" /\ rx # None /\ ExactBuffer /\ result.kind = "ok"
    /\ BLen(rx[1]) > 20 + 65535
    /\ At(rx[1], 1) # At(rx[1], 16)

\* the same buffer with every byte of its prior content changed
Complement(b) ==
    IF BLen(b) = 0 THEN Empty
    ELSE [head |-> [i \in 1..Len(b.head) |-> 255 - b.head[i]],
          run |-> b.run, of |-> 255 - b.of]

\* C10: serialize into a buffer of exactly buffer_len() bytes writes every
\* byte: the result is the same for a different prior content of the buffer.
C10_FullOverwrite ==
    (pc = "serialized" /\ ExactBuffer) =>
        buffer = serialize(sent[1], Complement(prior)).buf

\* a buffer that held 255 everywhere was filled for a message with data
C10_Witness ==
    /\ pc = "serialized" /\ ExactBuffer /\ result.kind = "ok"
    /\ BLen(prior) = 22 /\ At(prior, 17) = 255
    /\ sent[1].flags = 5

====
